---- MODULE Spec2Model ----
(***************************************************************************)
(* Model of src/src/agent_setup.py: loading the system prompt, building    *)
(* the agent, registering the two connector tools, and the tool bodies     *)
(* gong_execute / hubspot_execute forwarding to connector.execute.         *)
(*                                                                         *)
(* The agent framework, the tracing decorator and the connectors are       *)
(* external collaborators.  The connectors answer an execute request with  *)
(* any value or with ConnectorError; the framework calls registered tools  *)
(* in any order and interleaving.                                          *)
(***************************************************************************)
EXTENDS Integers, Sequences, FiniteSets, TLC

VARIABLES promptFile, agents, tools, calls, execLog, raised, run

vars == <<promptFile, agents, tools, calls, execLog, raised, run>>

(***************************************************************************)
(* Bounds of the model.                                                    *)
(***************************************************************************)
MaxFileLen == 4
MaxAgents == 1
MaxTools == 2
MaxCalls == 2

(***************************************************************************)
(* The prompt file: system_prompt.txt beside the module.                   *)
(***************************************************************************)
Whitespace == {" ", "\t", "\n"}
Chars == Whitespace \cup {"a"}

RECURSIVE SeqsUpTo(_)
SeqsUpTo(n) ==
    IF n = 0 THEN {<<>>}
    ELSE LET shorter == SeqsUpTo(n - 1)
         IN shorter \cup {Append(s, c) : s \in {x \in shorter : Len(x) = n - 1}, c \in Chars}

NoFile == [exists |-> FALSE, text |-> <<>>]
File(text) == [exists |-> TRUE, text |-> text]
Files == {NoFile} \cup {File(s) : s \in SeqsUpTo(MaxFileLen)}

\* str.strip(): drop the whitespace at both ends, keep the rest.
RECURSIVE lstrip(_)
lstrip(s) ==
    IF s # <<>> /\ Head(s) \in Whitespace THEN lstrip(Tail(s)) ELSE s

RECURSIVE rstrip(_)
rstrip(s) ==
    IF s # <<>> /\ s[Len(s)] \in Whitespace
    THEN rstrip(SubSeq(s, 1, Len(s) - 1))
    ELSE s

\* Faulty variant: only the leading whitespace is dropped.
strip_left_only(s) == lstrip(s)

strip(s) == rstrip(lstrip(s))

\* __load_system_prompt: read_text() raises when the file is absent,
\* otherwise the stripped text is returned.
\* Faulty variant: a missing file is read as empty text.
_load_system_prompt_default(file) ==
    [ok |-> TRUE, text |-> strip(file.text), err |-> "none"]

_load_system_prompt(file) ==
    IF file.exists
    THEN [ok |-> TRUE, text |-> strip(file.text), err |-> "none"]
    ELSE [ok |-> FALSE, text |-> <<>>, err |-> "FileNotFoundError"]

(***************************************************************************)
(* create_agent: the Agent(...) constructor call.                          *)
(***************************************************************************)
ModelName == "claude-sonnet-4-5-20250929"

\* Faulty variant: a budget of 11.
Agent_off_by_one(system_prompt) ==
    [model |-> ModelName, system_prompt |-> system_prompt, retries |-> 11]

Agent(system_prompt) ==
    [model |-> ModelName, system_prompt |-> system_prompt, retries |-> 10]

\* create_agent as a whole: the prompt is loaded first, the agent is built
\* from it; a failed load ends the call before any agent exists.
create_agent ==
    /\ Len(agents) < MaxAgents
    /\ LET loaded == _load_system_prompt(promptFile)
       IN /\ loaded.ok
          /\ agents' = Append(agents, Agent(loaded.text))
    /\ UNCHANGED <<promptFile, tools, calls, execLog, raised, run>>

create_agent_raises ==
    /\ LET loaded == _load_system_prompt(promptFile)
       IN /\ ~loaded.ok
          /\ raised' = raised \cup {loaded.err}
    /\ UNCHANGED <<promptFile, agents, tools, calls, execLog, run>>

(***************************************************************************)
(* Connectors, injected from outside, and the values a tool is called      *)
(* with.                                                                   *)
(***************************************************************************)
GongConnectors == {"gong1", "gong2"}
HubspotConnectors == {"hubspot1"}
Connectors == GongConnectors \cup HubspotConnectors

ValidEntities == {"calls"}
ValidActions == {"list"}

\* params: dict | None
None == [given |-> FALSE, items |-> {}]
Dict(items) == [given |-> TRUE, items |-> items]
EmptyDict == Dict({})

\* The (entity, action, params) triples the framework calls a tool with.
Inputs ==
    { <<"calls", "list", None>>,
      <<"bogus", "list", Dict({<<"limit", 1>>})>> }

\* Python truthiness of a dict | None value, and the `or` operator.
Truthy(p) == p.given /\ p.items # {}
Or(p, q) == IF Truthy(p) THEN p ELSE q

\* The outcome of an awaited call: a value, or a raised exception.
Values == {"v1"}
Ok(v) == [ok |-> TRUE, value |-> v, err |-> "none"]
Raise(e) == [ok |-> FALSE, value |-> "none", err |-> e]
NoResult == [ok |-> FALSE, value |-> "none", err |-> "none"]

\* connector.execute: fails with ConnectorError on an invalid entity/action
\* or an upstream failure, otherwise gives some result.
ExecuteOutcomes(entity, action) ==
    IF entity \in ValidEntities /\ action \in ValidActions
    THEN {Ok(v) : v \in Values} \cup {Raise("ConnectorError")}
    ELSE {Raise("ConnectorError")}

(***************************************************************************)
(* Tool registration: the decorator stacks of register_gong_tools and      *)
(* register_hubspot_tools.  Decorators apply from the one nearest to the   *)
(* def outwards.  `tools` lists the entry points registered so far, on     *)
(* whichever agent.                                                        *)
(***************************************************************************)
\* async def <name>(entity, action, params=None): closes over `connector`.
Closure(name, connector) ==
    [name |-> name, connector |-> connector, steps |-> <<"wrap">>,
     traced |-> FALSE, description |-> "none"]

traceable(name, fn) ==
    [fn EXCEPT !.steps = Append(@, "trace"), !.traced = TRUE]

airbyte_description(kind, fn) ==
    [fn EXCEPT !.steps = Append(@, "annotate"), !.description = kind]

tool_plain(fn) ==
    [fn EXCEPT !.steps = Append(@, "register")]

\* Faulty variant: the description is applied before the tracing layer.
gong_tool_annotate_first(connector) ==
    tool_plain(
        traceable("gong_execute",
            airbyte_description("gong", Closure("gong_execute", connector))))

gong_tool(connector) ==
    tool_plain(
        airbyte_description("gong",
            traceable("gong_execute", Closure("gong_execute", connector))))

hubspot_tool(connector) ==
    tool_plain(
        airbyte_description("hubspot",
            traceable("hubspot_execute", Closure("hubspot_execute", connector))))

\* Faulty variant: registration sends a request to the connector.
register_gong_tools_probing(agent, connector) ==
    /\ Len(tools) < MaxTools
    /\ tools' = Append(tools, gong_tool(connector))
    /\ execLog' = execLog \cup
           {[conn |-> connector, call |-> 0, n |-> Len(tools) + 1,
             entity |-> "calls", action |-> "list", params |-> EmptyDict,
             reply |-> NoResult]}
    /\ UNCHANGED <<promptFile, agents, calls, raised, run>>

register_gong_tools(agent, connector) ==
    /\ Len(tools) < MaxTools
    /\ tools' = Append(tools, gong_tool(connector))
    /\ UNCHANGED <<promptFile, agents, calls, execLog, raised, run>>

register_hubspot_tools(agent, connector) ==
    /\ Len(tools) < MaxTools
    /\ tools' = Append(tools, hubspot_tool(connector))
    /\ UNCHANGED <<promptFile, agents, calls, execLog, raised, run>>

(***************************************************************************)
(* A tool invocation, from the framework's call to the tool's return.      *)
(***************************************************************************)
\* The framework calls a registered entry point; the tracing layer, when
\* present, opens its span and enters the wrapped function.
Invoke(t, entity, action, params) ==
    calls' = Append(calls,
        [tool |-> t, entity |-> entity, action |-> action, params |-> params,
         pc |-> "called", result |-> NoResult,
         trace |-> IF tools[t].traced THEN "open" ELSE "off"])

ToolCall(t, entity, action, params) ==
    /\ run.status = "idle"
    /\ Len(calls) < MaxCalls
    /\ Invoke(t, entity, action, params)
    /\ UNCHANGED <<promptFile, agents, tools, execLog, raised, run>>

\* The tool bodies: connector.execute(entity, action, params or {}).
\* Faulty variant: the body reads the connector of the latest registration
\* instead of the one it closed over.
LatestConnector(name) ==
    LET ks == {k \in 1..Len(tools) : tools[k].name = name}
    IN tools[CHOOSE k \in ks : \A j \in ks : j <= k].connector

gong_execute_late_bound(connector, entity, action, params) ==
    [conn |-> LatestConnector("gong_execute"), entity |-> entity,
     action |-> action, params |-> Or(params, EmptyDict)]

gong_execute(connector, entity, action, params) ==
    [conn |-> connector, entity |-> entity, action |-> action,
     params |-> Or(params, EmptyDict)]

\* Faulty variant: params is passed on as given, None included.
hubspot_execute_no_default(connector, entity, action, params) ==
    [conn |-> connector, entity |-> entity, action |-> action,
     params |-> params]

\* Faulty variant: the HubSpot tool calls a Gong connector.
hubspot_execute_gong_connector(connector, entity, action, params) ==
    [conn |-> CHOOSE g \in GongConnectors : TRUE, entity |-> entity,
     action |-> action, params |-> Or(params, EmptyDict)]

hubspot_execute(connector, entity, action, params) ==
    [conn |-> connector, entity |-> entity, action |-> action,
     params |-> Or(params, EmptyDict)]

Request(i) ==
    LET c == calls[i]
        t == tools[c.tool]
    IN IF t.name = "gong_execute"
       THEN gong_execute(t.connector, c.entity, c.action, c.params)
       ELSE hubspot_execute(t.connector, c.entity, c.action, c.params)

\* execLog: the requests the connectors have received, each with the call
\* it came from and its number among that call's requests.
RequestsOf(i) == {e \in execLog : e.call = i}

Send(i, req) ==
    execLog' = execLog \cup
        {[conn |-> req.conn, call |-> i, n |-> Cardinality(RequestsOf(i)) + 1,
          entity |-> req.entity, action |-> req.action, params |-> req.params,
          reply |-> NoResult]}

\* Faulty variant: the body rejects an unknown entity itself.
ForwardValidating(i) ==
    /\ calls[i].pc = "called"
    /\ IF calls[i].entity \in ValidEntities
       THEN /\ Send(i, Request(i))
            /\ calls' = [calls EXCEPT ![i].pc = "awaiting"]
       ELSE /\ calls' = [calls EXCEPT ![i].pc = "done",
                                      ![i].result = Raise("ValueError"),
                                      ![i].trace = "closed"]
            /\ UNCHANGED execLog
    /\ UNCHANGED <<promptFile, agents, tools, raised, run>>

Forward(i) ==
    /\ calls[i].pc = "called"
    /\ Send(i, Request(i))
    /\ calls' = [calls EXCEPT ![i].pc = "awaiting"]
    /\ UNCHANGED <<promptFile, agents, tools, raised, run>>

\* `return await ...`: the connector finishes a pending request with some
\* outcome; the tool body awaiting it resumes and ends with that outcome
\* (a value is returned, an exception goes on to the caller); the tracing
\* layer closes its span.
Awaited(i) ==
    IF calls[i].pc = "awaiting"
    THEN {e \in RequestsOf(i) : e.reply = NoResult}
    ELSE {}

Answer(e, outcome) == (execLog \ {e}) \cup {[e EXCEPT !.reply = outcome]}

\* Faulty variant: a failure is caught and returned as a value.
ToolReturnSwallowing(i, outcome) ==
    /\ \E e \in Awaited(i) :
          /\ outcome \in ExecuteOutcomes(e.entity, e.action)
          /\ execLog' = Answer(e, outcome)
    /\ calls' = [calls EXCEPT ![i].pc = "done",
                              ![i].result = IF outcome.ok THEN outcome ELSE Ok("error"),
                              ![i].trace = IF @ = "open" THEN "closed" ELSE @]
    /\ UNCHANGED <<promptFile, agents, tools, raised, run>>

ToolReturn(i, outcome) ==
    /\ \E e \in Awaited(i) :
          /\ outcome \in ExecuteOutcomes(e.entity, e.action)
          /\ execLog' = Answer(e, outcome)
    /\ calls' = [calls EXCEPT ![i].pc = "done",
                              ![i].result = outcome,
                              ![i].trace = IF @ = "open" THEN "closed" ELSE @]
    /\ UNCHANGED <<promptFile, agents, tools, raised, run>>

(***************************************************************************)
(* Specifications.                                                         *)
(***************************************************************************)
IdleRun == [status |-> "idle", agent |-> 0, tool |-> 0, retries_used |-> 0]
SamplePrompt == <<" ", "a", " ", "a", "\n">>
AllOutcomes == {Ok(v) : v \in Values} \cup {Raise("ConnectorError")}

Init ==
    /\ promptFile = File(SamplePrompt)
    /\ agents = <<>>
    /\ tools = <<>>
    /\ calls = <<>>
    /\ execLog = {}
    /\ raised = {}
    /\ run = IdleRun

Next ==
    \/ create_agent
    \/ \E a \in 1..Len(agents), c \in GongConnectors : register_gong_tools(a, c)
    \/ \E a \in 1..Len(agents), c \in HubspotConnectors : register_hubspot_tools(a, c)
    \/ \E t \in 1..Len(tools), x \in Inputs : ToolCall(t, x[1], x[2], x[3])
    \/ \E i \in 1..Len(calls) : Forward(i)
    \/ \E i \in 1..Len(calls), o \in AllOutcomes : ToolReturn(i, o)

Spec == Init /\ [][Next]_vars

(***************************************************************************)
(* Prompt loading on its own: any prompt file, or none.                    *)
(***************************************************************************)
InitPrompt ==
    /\ promptFile \in Files
    /\ agents = <<>>
    /\ tools = <<>>
    /\ calls = <<>>
    /\ execLog = {}
    /\ raised = {}
    /\ run = IdleRun

NextPrompt ==
    \/ create_agent
    \/ create_agent_raises

SpecPrompt == InitPrompt /\ [][NextPrompt]_vars

(***************************************************************************)
(* One agent run whose tool may fail every time.  The framework owns the   *)
(* loop: after a failed tool call it either calls the tool again, while    *)
(* the agent's retry budget lasts, or gives the failure to the caller.     *)
(***************************************************************************)
LastCall == calls[Len(calls)]

StartRun(t, entity, action, params) ==
    /\ run.status = "idle"
    /\ run' = [status |-> "running", agent |-> 1, tool |-> t, retries_used |-> 0]
    /\ Invoke(t, entity, action, params)
    /\ UNCHANGED <<promptFile, agents, tools, execLog, raised>>

RetryTool(entity, action, params) ==
    /\ run.status = "running"
    /\ LastCall.pc = "done"
    /\ ~LastCall.result.ok
    /\ run.retries_used < agents[run.agent].retries
    /\ run' = [run EXCEPT !.retries_used = @ + 1]
    /\ Invoke(run.tool, entity, action, params)
    /\ UNCHANGED <<promptFile, agents, tools, execLog, raised>>

SurfaceFailure ==
    /\ run.status = "running"
    /\ LastCall.pc = "done"
    /\ ~LastCall.result.ok
    /\ run' = [run EXCEPT !.status = "failed"]
    /\ raised' = raised \cup {LastCall.result.err}
    /\ UNCHANGED <<promptFile, agents, tools, calls, execLog>>

FinishRun ==
    /\ run.status = "running"
    /\ LastCall.pc = "done"
    /\ LastCall.result.ok
    /\ run' = [run EXCEPT !.status = "succeeded"]
    /\ UNCHANGED <<promptFile, agents, tools, calls, execLog, raised>>

InitRetry ==
    /\ promptFile = File(SamplePrompt)
    /\ agents = <<Agent(_load_system_prompt(promptFile).text)>>
    /\ tools \in {<<gong_tool("gong1")>>, <<hubspot_tool("hubspot1")>>}
    /\ calls = <<>>
    /\ execLog = {}
    /\ raised = {}
    /\ run = IdleRun

NextRetry ==
    \/ \E t \in 1..Len(tools), x \in Inputs : StartRun(t, x[1], x[2], x[3])
    \/ \E i \in 1..Len(calls) : Forward(i)
    \/ \E i \in 1..Len(calls), o \in AllOutcomes : ToolReturn(i, o)
    \/ \E x \in Inputs : RetryTool(x[1], x[2], x[3])
    \/ SurfaceFailure
    \/ FinishRun

SpecRetry == InitRetry /\ [][NextRetry]_vars /\ WF_vars(NextRetry)


(***************************************************************************)
(* Properties.                                                             *)
(***************************************************************************)
CallIds == 1..Len(calls)
Forwarded == {i \in CallIds : calls[i].pc \in {"awaiting", "done"}}
Received(c) == {e \in execLog : e.conn = c}
OwnConnector(i) == tools[calls[i].tool].connector
Failed(r) == ~r.ok /\ r # NoResult

\* C1: a tool called with (entity, action, params) calls execute with that
\* entity, that action and those params, an omitted params replaced by the
\* empty mapping, and what the tool returns is what execute returned.
C1_ForwardsArgumentsAndResult ==
    \A i \in Forwarded :
        /\ RequestsOf(i) # {}
        /\ \A e \in RequestsOf(i) :
              /\ e.entity = calls[i].entity
              /\ e.action = calls[i].action
              /\ e.params =
                    IF calls[i].params = None THEN EmptyDict ELSE calls[i].params
              /\ calls[i].pc = "done" =>
                    /\ e.reply # NoResult
                    /\ calls[i].result = e.reply

C1_Witness ==
    \E i, j \in CallIds :
        /\ calls[i].pc = "done" /\ calls[i].params = None /\ calls[i].result.ok
        /\ tools[calls[i].tool].name = "hubspot_execute"
        /\ calls[j].pc = "done" /\ calls[j].params # None
        /\ tools[calls[j].tool].name = "gong_execute"

\* C2: when execute fails, the tool call ends with that same failure: it is
\* not caught, not turned into another error or a normal result, and execute
\* is not called again for that invocation.
C2_FailurePropagates ==
    \A i \in CallIds : \A e \in RequestsOf(i) :
        Failed(e.reply) =>
            /\ calls[i].pc = "done"
            /\ ~calls[i].result.ok
            /\ calls[i].result.err = e.reply.err
            /\ calls[i].result = e.reply
            /\ Cardinality(RequestsOf(i)) = 1

C2_Witness ==
    \E i, j \in CallIds :
        /\ calls[i].pc = "done" /\ calls[i].entity = "bogus"
        /\ calls[i].result = Raise("ConnectorError")
        /\ calls[j].pc = "done" /\ calls[j].entity = "calls"
        /\ calls[j].result = Raise("ConnectorError")

\* C3: with no prompt file, create_agent ends with the file-read failure and
\* no agent exists; an agent exists only when the prompt was loaded.
C3_NoAgentWithoutPrompt ==
    /\ ~promptFile.exists => agents = <<>>
    /\ agents # <<>> => promptFile.exists /\ raised = {}
    /\ raised # {} => raised = {"FileNotFoundError"} /\ ~promptFile.exists

C3_Witness ==
    /\ ~promptFile.exists
    /\ raised = {"FileNotFoundError"}
    /\ agents = <<>>

\* C4: the agent's system prompt is the file's text without its leading and
\* trailing whitespace; an empty or all-whitespace file gives the empty
\* prompt; whitespace inside is kept.
IsTrimOf(p, f) ==
    /\ \E lead \in 0..Len(f) :
          /\ lead + Len(p) <= Len(f)
          /\ \A n \in 1..lead : f[n] \in Whitespace
          /\ \A n \in 1..Len(p) : p[n] = f[lead + n]
          /\ \A n \in (lead + Len(p) + 1)..Len(f) : f[n] \in Whitespace
    /\ p # <<>> => p[1] \notin Whitespace /\ p[Len(p)] \notin Whitespace

C4_PromptIsTrimmedFile ==
    \A a \in 1..Len(agents) :
        /\ IsTrimOf(agents[a].system_prompt, promptFile.text)
        /\ (\A n \in 1..Len(promptFile.text) : promptFile.text[n] \in Whitespace)
              => agents[a].system_prompt = <<>>

C4_Witness ==
    /\ agents # <<>>
    /\ promptFile.text = <<"\n", "a", " ", "a">>
    /\ agents[1].system_prompt = <<"a", " ", "a">>

\* C5: two entry points registered for the same connector type, each with
\* its own connector, are independent: every call through one of them
\* reaches only the connector of its own registration, with its own
\* arguments, and ends with the reply to its own request.
C5_EntryPointsIndependent ==
    \A i \in Forwarded :
        \E e \in execLog :
            /\ RequestsOf(i) = {e}
            /\ e.conn = OwnConnector(i)
            /\ e.entity = calls[i].entity
            /\ e.params = Or(calls[i].params, EmptyDict)
            /\ calls[i].pc = "done" => calls[i].result = e.reply
            /\ calls[i].pc = "awaiting" => e.reply = NoResult

C5_Witness ==
    \E i, j \in CallIds :
        /\ calls[i].tool < calls[j].tool
        /\ tools[calls[i].tool].name = tools[calls[j].tool].name
        /\ OwnConnector(i) # OwnConnector(j)
        /\ calls[i].pc = "awaiting"
        /\ calls[j].pc = "done"

\* C7: every invocation of a tool calls execute exactly once, whatever its
\* arguments: none before the body runs, one from then on.
C7_ExecuteExactlyOnce ==
    \A i \in CallIds :
        Cardinality(RequestsOf(i)) = IF calls[i].pc = "called" THEN 0 ELSE 1

C7_Witness ==
    \E i \in CallIds :
        /\ calls[i].entity \notin ValidEntities
        /\ calls[i].pc = "done"
        /\ Cardinality(RequestsOf(i)) = 1

\* C8, as claimed: every registered tool was built in the order wrap,
\* annotate, trace, register.
C8_Original_WrapAnnotateTraceRegister ==
    \A t \in 1..Len(tools) :
        tools[t].steps = <<"wrap", "annotate", "trace", "register">>

\* C8, amended: every registered tool was built in the order wrap, trace,
\* annotate, register, and the tracing layer is around every tool call: its
\* span is open while the call runs and closed when the call has ended.
C8_WrapTraceAnnotateRegister ==
    /\ \A t \in 1..Len(tools) :
          /\ tools[t].steps = <<"wrap", "trace", "annotate", "register">>
          /\ tools[t].traced
    /\ \A i \in CallIds :
          calls[i].trace = IF calls[i].pc = "done" THEN "closed" ELSE "open"

C8_Witness ==
    /\ \E t \in 1..Len(tools) : tools[t].name = "gong_execute"
    /\ \E t \in 1..Len(tools) : tools[t].name = "hubspot_execute"
    /\ \E i, j \in CallIds : calls[i].trace = "closed" /\ calls[j].trace = "open"

\* C9: a gong_execute call reaches only Gong connectors and a
\* hubspot_execute call only HubSpot connectors: every request a connector
\* has received came from a tool of its own kind.
C9_RoutingIsolated ==
    \A e \in execLog :
        LET name == tools[calls[e.call].tool].name
        IN /\ e.call \in CallIds
           /\ e.conn \in GongConnectors => name = "gong_execute"
           /\ e.conn \in HubspotConnectors => name = "hubspot_execute"

C9_Witness ==
    /\ \E g \in GongConnectors : Received(g) # {}
    /\ \E h \in HubspotConnectors : Received(h) # {}
    /\ \E i, j \in CallIds :
          /\ tools[calls[i].tool].name = "gong_execute"
          /\ tools[calls[j].tool].name = "hubspot_execute"
          /\ calls[i].pc = "awaiting"
          /\ calls[j].pc = "awaiting"

\* C10: creating the agent and registering tools call no connector: the
\* requests a connector has received are as many as the forwarded calls of
\* the tools registered for it.
C10_ExecuteOnlyOnInvocation ==
    \A c \in Connectors :
        Cardinality(Received(c)) = Cardinality({i \in Forwarded : OwnConnector(i) = c})

C10_Witness ==
    /\ agents # <<>>
    /\ Len(tools) >= 2
    /\ \E i, j \in CallIds : calls[i].pc = "called" /\ calls[j].pc = "awaiting"
    /\ \E c \in Connectors : Cardinality(Received(c)) = 1
    /\ \E c \in Connectors : tools[1].connector = c /\ Received(c) = {}

\* C6: the agent carries a retry budget of 10; a failing tool is called
\* again at most 10 times in a run, and a run always ends, with the tool's
\* failure given to the caller when the tool failed last.
RunEnded == run.status \in {"failed", "succeeded"}

C6_RetryBudgetIsTenAndRunEnds ==
    /\ [](\A a \in 1..Len(agents) : agents[a].retries = 10)
    /\ [](run.retries_used <= 10 /\ Len(calls) <= 11)
    /\ [](run.status = "failed" => "ConnectorError" \in raised)
    /\ (run.status = "running") ~> RunEnded

C6_Witness ==
    /\ run.status = "failed"
    /\ run.retries_used = 10
    /\ Len(calls) = 11
    /\ \A i \in CallIds : calls[i].result = Raise("ConnectorError")

====
